---- MODULE Spec2Model ----
(***************************************************************************)
(* Model of lab7_cfg_epsilon_removal.py: a context-free grammar is parsed  *)
(* line by line and then normalised by four stages: eliminate_epsilon,     *)
(* eliminate_unit_productions, remove_useless_symbols and to_cnf.          *)
(*                                                                         *)
(* A Python string is modelled as a sequence of one-character strings; a   *)
(* production body and a nonterminal name are both such sequences.  A      *)
(* Python dict (insertion ordered) is a record [ord, map]: ord is the      *)
(* sequence of keys in insertion order, map the function from key to the   *)
(* set of bodies.                                                          *)
(***************************************************************************)
EXTENDS Integers, Sequences, FiniteSets, TLC

\* ------------------------------------------------------------------ bounds
\* Number of productions (lhs, body) the parsed file holds at most.
MaxProds == 3
\* Total number of body symbols of the parsed file at most.
MaxSize == 3
\* Length of the terminal strings whose derivability is compared, at most.
MaxWordLen == 2

\* ------------------------------------------------------------- characters
\* The one-character string "ε" (EPS_SYMBOLS are normalised to it, line 56).
EPS == "eps"

UpperSeq == << "A","B","C","D","E","F","G","H","I","J","K","L","M",
               "N","O","P","Q","R","S","T","U","V","W","X","Y","Z" >>
LowerSeq == << "a","b","c","d","e","f","g","h","i","j","k","l","m",
               "n","o","p","q","r","s","t","u","v","w","x","y","z" >>
DigitSeq == << "0","1","2","3","4","5","6","7","8","9" >>

UpperChars == { UpperSeq[i] : i \in 1..26 }
LowerChars == { LowerSeq[i] : i \in 1..26 }
DigitChars == { DigitSeq[i] : i \in 1..10 }

\* is_terminal with a test for ASCII letters and digits only, which ε fails.
is_terminal_ascii(ch) == ch \in LowerChars \cup DigitChars

\* str.islower() or str.isdigit(); "ε".islower() is True in Python.
is_terminal(ch) == ch \in LowerChars \cup DigitChars \cup {EPS}

\* The capital of ε ("ε".upper()), a letter outside A-Z.
CapEPS == "EPS"

\* str.isupper()
is_nonterminal(ch) == ch \in UpperChars \cup {CapEPS}

\* str.upper() of one character (digits and capitals are unchanged).
upper(ch) ==
    IF ch \in LowerChars
    THEN UpperSeq[CHOOSE i \in 1..26 : LowerSeq[i] = ch]
    ELSE IF ch = EPS THEN CapEPS ELSE ch

\* str(i) for i >= 0, as a sequence of characters.
RECURSIVE str(_)
str(i) == IF i < 10 THEN << DigitSeq[i + 1] >>
          ELSE str(i \div 10) \o << DigitSeq[(i % 10) + 1] >>

\* ---------------------------------------------------------------- grammars
EpsBody == << EPS >>
NoStart == << >>
EmptyDict == [ord |-> << >>, map |-> [k \in {} |-> {}]]

Keys(g) == { g.ord[i] : i \in 1..Len(g.ord) }

\* prods.get(A, set())
Get(g, A) == IF A \in Keys(g) THEN g.map[A] ELSE {}

\* d.setdefault(k, set()).update(bs)
SetDefaultUpdate(g, k, bs) ==
    IF k \in Keys(g)
    THEN [g EXCEPT !.map[k] = @ \cup bs]
    ELSE [ord |-> Append(g.ord, k),
          map |-> [x \in Keys(g) \cup {k} |-> IF x = k THEN bs ELSE g.map[x]]]

\* {A: set() for A in keys}
EmptyLike(ord) == [ord |-> ord, map |-> [k \in { ord[i] : i \in 1..Len(ord) } |-> {}]]

RECURSIVE SumLen(_)
SumLen(bs) == IF bs = {} THEN 0
              ELSE LET b == CHOOSE x \in bs : TRUE IN Len(b) + SumLen(bs \ {b})

RECURSIVE SizeFrom(_, _)
SizeFrom(g, i) == IF i > Len(g.ord) THEN 0
                  ELSE SumLen(g.map[g.ord[i]]) + SizeFrom(g, i + 1)

\* Total number of body symbols of a grammar.
Size(g) == SizeFrom(g, 1)

RECURSIVE NumFrom(_, _)
NumFrom(g, i) == IF i > Len(g.ord) THEN 0
                 ELSE Cardinality(g.map[g.ord[i]]) + NumFrom(g, i + 1)

\* Number of productions of a grammar.
NumProds(g) == NumFrom(g, 1)

\* -------------------------------------------------------------- the input
\* The left-hand sides and the body symbols the parsed files are written
\* over ("C" is a nonterminal that is referenced and has no line of its own).
InNonterminals == { "S", "A", "B" }
InSymbols == { "S", "A", "B", "C", "a", "1" }

RECURSIVE Strings(_)
Strings(n) == IF n = 0 THEN { << >> }
              ELSE LET P == Strings(n - 1)
                   IN P \cup { Append(s, c) : s \in { t \in P : Len(t) = n - 1 }, c \in InSymbols }

\* The bodies one alternative of a line can hold: ε or a non-empty string.
InBodies == { EpsBody } \cup (Strings(MaxSize) \ { << >> })

\* The bodies that still fit when `room` symbols are left.
BodiesByRoom == [ room \in 0..MaxSize |-> { b \in InBodies : Len(b) <= room } ]

\* -------------------------------------------------------- find_nullable
BodyNullable(b, nullable) ==
    \/ b = EpsBody
    \/ \A i \in 1..Len(b) :
          /\ ~ is_terminal(b[i])
          /\ (is_nonterminal(b[i]) => << b[i] >> \in nullable)

\* One pass of the for loop of lines 86-97 from key number i on.
RECURSIVE NullableScan(_, _, _, _)
NullableScan(g, i, nullable, changed) ==
    IF i > Len(g.ord) THEN [nullable |-> nullable, changed |-> changed]
    ELSE LET A == g.ord[i] IN
         IF A \in nullable THEN NullableScan(g, i + 1, nullable, changed)
         ELSE IF \E b \in g.map[A] : BodyNullable(b, nullable)
              THEN NullableScan(g, i + 1, nullable \cup {A}, TRUE)
              ELSE NullableScan(g, i + 1, nullable, changed)

NullableSeed(g) == { A \in Keys(g) : EpsBody \in g.map[A] }

\* The loop body run once, with no iteration to convergence.
NullableLoopOnce(g, nullable) == NullableScan(g, 1, nullable, FALSE).nullable

\* The while loop of lines 83-97.
RECURSIVE NullableLoop(_, _)
NullableLoop(g, nullable) ==
    LET r == NullableScan(g, 1, nullable, FALSE)
    IN IF r.changed THEN NullableLoop(g, r.nullable) ELSE r.nullable

find_nullable(g) == NullableLoop(g, NullableSeed(g))

\* ------------------------------------------------------ eliminate_epsilon
RECURSIVE Pow2(_)
Pow2(n) == IF n = 0 THEN 1 ELSE 2 * Pow2(n - 1)

\* positions = [i for i, ch in enumerate(b) if is_nonterminal(ch) and ch in nullable]
Positions(b, nullable) ==
    { i \in 1..Len(b) : is_nonterminal(b[i]) /\ << b[i] >> \in nullable }

\* positions.index(i): number of positions before i
PosIdx(P, i) == Cardinality({ j \in P : j < i })

\* The candidate of one mask (lines 115-123).
RECURSIVE Candidate(_, _, _, _)
Candidate(b, P, mask, i) ==
    IF i > Len(b) THEN << >>
    ELSE IF i \in P /\ ((mask \div Pow2(PosIdx(P, i))) % 2) = 1
         THEN Candidate(b, P, mask, i + 1)
         ELSE << b[i] >> \o Candidate(b, P, mask, i + 1)

\* generated with the ε-retention option ignored.
GeneratedAlwaysKeep(A, b, nullable, start, keep_start_epsilon) ==
    LET P == Positions(b, nullable)
        C == { Candidate(b, P, mask, 1) : mask \in 0..(Pow2(Cardinality(P)) - 1) }
    IN (C \ { << >> }) \cup (IF << >> \in C /\ A = start THEN { EpsBody } ELSE {})

\* generated of lines 112-128
Generated(A, b, nullable, start, keep_start_epsilon) ==
    LET P == Positions(b, nullable)
        C == { Candidate(b, P, mask, 1) : mask \in 0..(Pow2(Cardinality(P)) - 1) }
    IN (C \ { << >> })
       \cup (IF << >> \in C /\ A = start /\ keep_start_epsilon THEN { EpsBody } ELSE {})

EpsBodies(A, bodies, nullable, start, keep_start_epsilon) ==
    UNION { LET gen == Generated(A, b, nullable, start, keep_start_epsilon)
            IN IF gen # {} THEN gen ELSE { b }
            : b \in bodies \ { EpsBody } }

\* new_prods of lines 105-138, given the nullable set
NewProds(start, g, keep_start_epsilon, nullable) ==
    LET np == [ A \in Keys(g) |->
                  EpsBodies(A, g.map[A], nullable, start, keep_start_epsilon) ]
        np2 == [ A \in Keys(g) |->
                  IF A = start /\ keep_start_epsilon /\ start \in nullable
                  THEN np[A] \cup { EpsBody } ELSE np[A] ]
    IN [ ord |-> g.ord,
         map |-> [ A \in Keys(g) |->
                     IF A # start THEN np2[A] \ { EpsBody } ELSE np2[A] ] ]

eliminate_epsilon(start, g, keep_start_epsilon) ==
    NewProds(start, g, keep_start_epsilon, find_nullable(g))

\* ------------------------------------------- eliminate_unit_productions
\* len(b) == 1 and is_nonterminal(b)
IsUnitBody(b) == Len(b) = 1 /\ is_nonterminal(b[1])

\* unit.get(B, set())
UnitGet(unit, B) == IF B \in DOMAIN unit THEN unit[B] ELSE {}

\* The body of the for loop of lines 150-155 for one key A.
UnitStep(g, unit, A) ==
    LET direct == { b \in Get(g, A) : IsUnitBody(b) /\ b \notin unit[A] }
        listed == unit[A] \cup direct
    IN [ set |-> listed \cup UNION { UnitGet(unit, B) : B \in listed \ {A} },
         changed |-> direct # {} ]

\* One pass of the while loop of lines 148-155 from key number i on.
RECURSIVE UnitScan(_, _, _, _)
UnitScan(g, i, unit, changed) ==
    IF i > Len(g.ord) THEN [unit |-> unit, changed |-> changed]
    ELSE LET A == g.ord[i]
             r == UnitStep(g, unit, A)
         IN UnitScan(g, i + 1, [unit EXCEPT ![A] = r.set], changed \/ r.changed)

RECURSIVE UnitLoop(_, _)
UnitLoop(g, unit) ==
    LET r == UnitScan(g, 1, unit, FALSE)
    IN IF r.changed THEN UnitLoop(g, r.unit) ELSE r.unit

\* unit of line 146
UnitSeed(g) == [ A \in Keys(g) |-> {A} ]

\* unit of lines 146-155: the unit closure the code computes.
unit_closure(g) == UnitLoop(g, UnitSeed(g))

\* new_prods of lines 157-163, given the unit closure
UnitNewProds(g, unit) ==
    [ ord |-> g.ord,
      map |-> [ A \in Keys(g) |->
                  UNION { { body \in Get(g, B) : ~ IsUnitBody(body) } : B \in unit[A] } ] ]

eliminate_unit_productions(g) == UnitNewProds(g, unit_closure(g))

\* ------------------------------------------------ generating_nonterminals
\* ok of lines 175-179
BodyGenerating(b, gen) ==
    \A i \in 1..Len(b) :
        is_terminal(b[i]) \/ ~ (is_nonterminal(b[i]) /\ << b[i] >> \notin gen)

\* One pass of the for loop of lines 172-181 from key number i on.
RECURSIVE GenScan(_, _, _, _)
GenScan(g, i, gen, changed) ==
    IF i > Len(g.ord) THEN [gen |-> gen, changed |-> changed]
    ELSE LET A == g.ord[i] IN
         IF A \in gen THEN GenScan(g, i + 1, gen, changed)
         ELSE IF \E b \in g.map[A] : BodyGenerating(b, gen)
              THEN GenScan(g, i + 1, gen \cup {A}, TRUE)
              ELSE GenScan(g, i + 1, gen, changed)

RECURSIVE GenLoop(_, _)
GenLoop(g, gen) ==
    LET r == GenScan(g, 1, gen, FALSE)
    IN IF r.changed THEN GenLoop(g, r.gen) ELSE r.gen

generating_nonterminals(g) == GenLoop(g, {})

\* ------------------------------------------------- reachable_nonterminals
\* One pass of the for loop of lines 189-193 over list(reach).
ReachPass(g, reach) ==
    reach \cup UNION { { << b[i] >> : i \in { j \in 1..Len(b) : is_nonterminal(b[j]) } }
                       : b \in UNION { Get(g, A) : A \in reach } }

\* The while loop of lines 187-193; changed is set when a pass adds a name.
RECURSIVE ReachLoop(_, _)
ReachLoop(g, reach) ==
    LET r == ReachPass(g, reach)
    IN IF r # reach THEN ReachLoop(g, r) ELSE reach

reachable_nonterminals(start, g) == ReachLoop(g, { start })

\* ------------------------------------------------- remove_useless_symbols
\* A dict restricted to the keys of a set, in the same insertion order.
Restrict(g, keep) ==
    [ ord |-> SelectSeq(g.ord, LAMBDA A : A \in keep),
      map |-> [ A \in Keys(g) \cap keep |-> g.map[A] ] ]

\* prods_gen with every body of a generating nonterminal kept.
ProdsGenAllBodies(g, gen) ==
    [ ord |-> SelectSeq(g.ord, LAMBDA A : A \in gen),
      map |-> [ A \in Keys(g) \cap gen |-> g.map[A] ] ]

\* prods_gen of lines 201-208
ProdsGen(g, gen) ==
    [ ord |-> SelectSeq(g.ord, LAMBDA A : A \in gen),
      map |-> [ A \in Keys(g) \cap gen |->
                  { b \in g.map[A] :
                      \A i \in 1..Len(b) : is_terminal(b[i]) \/ << b[i] >> \in gen } ] ]

\* prods_final of lines 213-218, given the generating and reachable sets
ProdsFinal(start, g, gen, reach) ==
    LET prods_final == Restrict(ProdsGen(g, gen), reach)
    IN IF start \notin Keys(prods_final)
       THEN SetDefaultUpdate(prods_final, start, {})
       ELSE prods_final

remove_useless_symbols(start, g) ==
    LET gen == generating_nonterminals(g)
    IN ProdsFinal(start, g, gen, reachable_nonterminals(start, ProdsGen(g, gen)))

\* -------------------------------------------------------------- fresh_var
\* The search of lines 222-228 from counter i on: the first base+str(i) that
\* is not in used.
RECURSIVE FreshSearch(_, _, _)
FreshSearch(used, base, i) ==
    IF (base \o str(i)) \notin used THEN base \o str(i)
    ELSE FreshSearch(used, base, i + 1)

\* The counter that stays where it is.
SameCounter(i) == i

\* i += 1 of line 228
NextCounter(i) == i + 1

\* The name fresh_var returns; the caller's set becomes used \cup {name}.
fresh_var(used, base) == FreshSearch(used, base, 1)

\* ------------------------------------------------------------------ to_cnf
\* A local variable: e is evaluated once, and F is applied to its value.
With(e, F(_)) == CHOOSE v \in { F(x) : x \in { e } } : TRUE

\* A set as a sequence, in one fixed order.
RECURSIVE SetToSeq(_)
SetToSeq(X) == IF X = {} THEN << >>
               ELSE LET x == CHOOSE y \in X : TRUE IN << x >> \o SetToSeq(X \ {x})

\* candidate of lines 245-247 for a terminal that has no lifter yet
LifterName(ch, used) ==
    LET candidate == << upper(ch) >>
    IN IF candidate \in used \/ ~ is_nonterminal(upper(ch))
       THEN fresh_var(used, << "T", ch >>)
       ELSE candidate

\* Lines 242-252 from character number i of body b on.  st is the record
\* [used, term_var, tv_ord]: term_var maps a terminal to its lifter, tv_ord
\* lists the terminals in the order they were entered into term_var.
RECURSIVE LiftChars(_, _, _, _)
LiftChars(b, i, st, new_body) ==
    IF i > Len(b) THEN [st |-> st, body |-> new_body]
    ELSE LET ch == b[i] IN
         IF is_terminal(ch)
         THEN IF ch \in DOMAIN st.term_var
              THEN LiftChars(b, i + 1, st, new_body \o st.term_var[ch])
              ELSE With(LifterName(ch, st.used), LAMBDA candidate :
                   With([ used |-> st.used \cup { candidate },
                          term_var |-> st.term_var @@ (ch :> candidate),
                          tv_ord |-> Append(st.tv_ord, ch) ], LAMBDA st2 :
                   LiftChars(b, i + 1, st2, new_body \o candidate)))
         ELSE LiftChars(b, i + 1, st, new_body \o << ch >>)

\* Lines 237-255 for the bodies bs (a sequence) of key A.
RECURSIVE LiftBodies(_, _, _, _, _, _)
LiftBodies(start, A, bs, i, st, cnf1) ==
    IF i > Len(bs) THEN [st |-> st, cnf1 |-> cnf1]
    ELSE LET b == bs[i] IN
         IF b = EpsBody /\ A # start
         THEN LiftBodies(start, A, bs, i + 1, st, cnf1)
         ELSE IF Len(b) >= 2
              THEN With(LiftChars(b, 1, st, << >>), LAMBDA r :
                   With(SetDefaultUpdate(cnf1, A, { r.body }), LAMBDA c :
                   LiftBodies(start, A, bs, i + 1, r.st, c)))
              ELSE With(SetDefaultUpdate(cnf1, A, { b }), LAMBDA c :
                   LiftBodies(start, A, bs, i + 1, st, c))

\* Lines 236-255 from key number k on.  The lifter of a terminal depends on
\* the terminal and on the keys of prods alone, so the order in which a
\* body set is iterated does not show in term_var or in the bodies of cnf1.
RECURSIVE LiftKeys(_, _, _, _, _)
LiftKeys(start, g, k, st, cnf1) ==
    IF k > Len(g.ord) THEN [st |-> st, cnf1 |-> cnf1]
    ELSE With(LiftBodies(start, g.ord[k], SetToSeq(g.map[g.ord[k]]), 1, st, cnf1),
              LAMBDA r : LiftKeys(start, g, k + 1, r.st, r.cnf1))

\* Lines 256-257
RECURSIVE AddLifters(_, _, _)
AddLifters(st, i, cnf1) ==
    IF i > Len(st.tv_ord) THEN cnf1
    ELSE With(SetDefaultUpdate(cnf1, st.term_var[st.tv_ord[i]], { << st.tv_ord[i] >> }),
              LAMBDA c : AddLifters(st, i + 1, c))

\* term_var after the first pass (lines 232-255)
TermVar(start, g) ==
    LiftKeys(start, g, 1,
             [ used |-> Keys(g), term_var |-> [ c \in {} |-> << >> ], tv_ord |-> << >> ],
             EmptyLike(g.ord)).st.term_var

\* The terminals in the order the first pass enters them into term_var.
TermVarOrder(start, g) ==
    LiftKeys(start, g, 1,
             [ used |-> Keys(g), term_var |-> [ c \in {} |-> << >> ], tv_ord |-> << >> ],
             EmptyLike(g.ord)).st.tv_ord

\* cnf1 after the first pass (lines 232-258)
TerminalLifting(start, g) ==
    With(LiftKeys(start, g, 1,
                  [ used |-> Keys(g), term_var |-> [ c \in {} |-> << >> ],
                    tv_ord |-> << >> ],
                  EmptyLike(g.ord)),
         LAMBDA r : AddLifters(r.st, 1, r.cnf1))

\* Lines 268-277 for one body of length >= 3, from symbol number i on.
\* st is the record [used, cnf2].
RECURSIVE Chain(_, _, _, _)
Chain(symbols, i, prev_left, st) ==
    IF i > Len(symbols) - 2
    THEN [ st EXCEPT !.cnf2 = SetDefaultUpdate(st.cnf2, prev_left,
                          { << symbols[Len(symbols) - 1], symbols[Len(symbols)] >> }) ]
    ELSE With(fresh_var(st.used, << "Y" >>), LAMBDA Y :
         With([ used |-> st.used \cup { Y },
                cnf2 |-> SetDefaultUpdate(st.cnf2, prev_left, { << symbols[i] >> \o Y }) ],
              LAMBDA st2 : Chain(symbols, i + 1, Y, st2)))

\* Lines 264-267: the bodies that are copied and take no fresh name.
IsCopied(start, A, b) == (b = EpsBody /\ A = start) \/ Len(b) <= 2

\* The bodies of key A that are split, in every order the iteration of the
\* set can take: the set of the records [used, cnf2] that can result.
RECURSIVE SplitBodies(_, _, _)
SplitBodies(A, rest, st) ==
    IF rest = {} THEN { st }
    ELSE UNION { With(Chain(b, 1, A, st), LAMBDA st2 : SplitBodies(A, rest \ { b }, st2))
                 : b \in rest }

\* Lines 262-277 from key number k of cnf1 on, from each record of sts.
RECURSIVE BinarizeKeys(_, _, _, _)
BinarizeKeys(start, cnf1, k, sts) ==
    IF k > Len(cnf1.ord) THEN sts
    ELSE LET A == cnf1.ord[k]
             copied == { b \in cnf1.map[A] : IsCopied(start, A, b) }
         IN With(UNION { With([ st EXCEPT !.cnf2 = SetDefaultUpdate(st.cnf2, A, copied) ],
                               LAMBDA st2 : SplitBodies(A, cnf1.map[A] \ copied, st2))
                          : st \in sts },
                 LAMBDA sts2 : BinarizeKeys(start, cnf1, k + 1, sts2))

\* cnf2 after the second pass (lines 260-277), for every iteration order.
Binarization(start, cnf1) ==
    { st.cnf2 : st \in BinarizeKeys(start, cnf1, 1,
                          { [ used |-> Keys(cnf1), cnf2 |-> EmptyLike(cnf1.ord) ] }) }

\* The number of calls of fresh_var the second pass makes (line 272).
RECURSIVE SplitCalls(_)
SplitCalls(bs) ==
    IF bs = {} THEN 0
    ELSE LET b == CHOOSE x \in bs : TRUE IN (Len(b) - 2) + SplitCalls(bs \ { b })

RECURSIVE FreshCallsFrom(_, _, _)
FreshCallsFrom(start, cnf, k) ==
    IF k > Len(cnf.ord) THEN 0
    ELSE SplitCalls({ b \in cnf.map[cnf.ord[k]] : ~ IsCopied(start, cnf.ord[k], b) })
         + FreshCallsFrom(start, cnf, k + 1)

\* The grammars to_cnf can return.
to_cnf(start, g) ==
    With(TerminalLifting(start, g), LAMBDA cnf1 : Binarization(start, cnf1))

\* ------------------------------------------------------------------ state
\* The variables of main (lines 298-330).  pc is the last stage completed;
\* nullable, unit, term_var and cnf1 are the intermediate facts the stages
\* compute and report in their steps (lines 103, 164, 258).
\* In the specification of single loop iterations, pc also names the loop
\* that is running and loc holds the locals of the running function.
VARIABLES pc, S, G, keep_start, G1, G2a, G2b, G2c, nullable, unit, term_var, cnf1, loc

vars == << pc, S, G, keep_start, G1, G2a, G2b, G2c, nullable, unit, term_var, cnf1, loc >>

EmptyFun == [ k \in {} |-> {} ]
NoLocals == [ changed |-> FALSE ]

Init ==
    /\ pc = "parse"
    /\ S = NoStart
    /\ G = EmptyDict
    /\ keep_start \in BOOLEAN
    /\ G1 = EmptyDict
    /\ G2a = EmptyDict
    /\ G2b = EmptyDict
    /\ G2c = EmptyDict
    /\ nullable = {}
    /\ unit = EmptyFun
    /\ term_var = EmptyFun
    /\ cnf1 = EmptyDict
    /\ loc = NoLocals

\* One alternative of one line of the file (lines 37-62).
ParseLine(lhs, b) ==
    /\ pc = "parse"
    /\ b \notin Get(G, lhs)
    /\ S' = IF S = NoStart THEN lhs ELSE S
    /\ G' = SetDefaultUpdate(G, lhs, { b })
    /\ UNCHANGED << pc, keep_start, G1, G2a, G2b, G2c, nullable, unit, term_var, cnf1, loc >>

\* Line 310
RunEliminateEpsilon ==
    /\ pc = "parse"
    /\ S # NoStart
    /\ nullable' = find_nullable(G)
    /\ G1' = eliminate_epsilon(S, G, keep_start)
    /\ pc' = "p1"
    /\ UNCHANGED << S, G, keep_start, G2a, G2b, G2c, unit, term_var, cnf1, loc >>

\* Line 320
RunEliminateUnit ==
    /\ pc = "p1"
    /\ unit' = unit_closure(G1)
    /\ G2a' = eliminate_unit_productions(G1)
    /\ pc' = "p2a"
    /\ UNCHANGED << S, G, keep_start, G1, G2b, G2c, nullable, term_var, cnf1, loc >>

\* Line 325
RunRemoveUseless ==
    /\ pc = "p2a"
    /\ G2b' = remove_useless_symbols(S, G2a)
    /\ pc' = "p2b"
    /\ UNCHANGED << S, G, keep_start, G1, G2a, G2c, nullable, unit, term_var, cnf1, loc >>

\* Line 330
RunToCnf ==
    /\ pc = "p2b"
    /\ term_var' = TermVar(S, G2b)
    /\ cnf1' = TerminalLifting(S, G2b)
    /\ G2c' \in to_cnf(S, G2b)
    /\ pc' = "p2c"
    /\ UNCHANGED << S, G, keep_start, G1, G2a, G2b, nullable, unit, loc >>

Next ==
    \/ /\ NumProds(G) < MaxProds
       /\ \E lhs \in InNonterminals, b \in BodiesByRoom[MaxSize - Size(G)] :
              ParseLine(<< lhs >>, b)
    \/ RunEliminateEpsilon
    \/ RunEliminateUnit
    \/ RunRemoveUseless
    \/ RunToCnf

Spec == Init /\ [][Next]_vars

\* ------------------------------------------------- the loops, pass by pass
\* The same program with every pass of a while loop as a step of its own.

\* find_nullable, lines 79-83
EnterFindNullable ==
    /\ pc = "parse"
    /\ S # NoStart
    /\ pc' = "find_nullable"
    /\ loc' = [ nullable |-> NullableSeed(G), changed |-> TRUE ]
    /\ UNCHANGED << S, G, keep_start, G1, G2a, G2b, G2c, nullable, unit, term_var, cnf1 >>

\* One pass of the while loop of lines 84-97
PassFindNullable ==
    /\ pc = "find_nullable"
    /\ loc.changed
    /\ loc' = NullableScan(G, 1, loc.nullable, FALSE)
    /\ UNCHANGED << pc, S, G, keep_start, G1, G2a, G2b, G2c, nullable, unit, term_var, cnf1 >>

\* Lines 98 and 103-139
ReturnEliminateEpsilon ==
    /\ pc = "find_nullable"
    /\ ~ loc.changed
    /\ nullable' = loc.nullable
    /\ G1' = NewProds(S, G, keep_start, loc.nullable)
    /\ pc' = "p1"
    /\ loc' = NoLocals
    /\ UNCHANGED << S, G, keep_start, G2a, G2b, G2c, unit, term_var, cnf1 >>

\* eliminate_unit_productions, lines 143-147
EnterUnitClosure ==
    /\ pc = "p1"
    /\ pc' = "unit_closure"
    /\ loc' = [ unit |-> UnitSeed(G1), changed |-> TRUE ]
    /\ UNCHANGED << S, G, keep_start, G1, G2a, G2b, G2c, nullable, unit, term_var, cnf1 >>

\* One pass of the while loop of lines 148-155
PassUnitClosure ==
    /\ pc = "unit_closure"
    /\ loc.changed
    /\ loc' = UnitScan(G1, 1, loc.unit, FALSE)
    /\ UNCHANGED << pc, S, G, keep_start, G1, G2a, G2b, G2c, nullable, unit, term_var, cnf1 >>

\* Lines 157-165
ReturnEliminateUnit ==
    /\ pc = "unit_closure"
    /\ ~ loc.changed
    /\ unit' = loc.unit
    /\ G2a' = UnitNewProds(G1, loc.unit)
    /\ pc' = "p2a"
    /\ loc' = NoLocals
    /\ UNCHANGED << S, G, keep_start, G1, G2b, G2c, nullable, term_var, cnf1 >>

\* generating_nonterminals, lines 168-169
EnterGenerating ==
    /\ pc = "p2a"
    /\ pc' = "generating"
    /\ loc' = [ gen |-> {}, changed |-> TRUE ]
    /\ UNCHANGED << S, G, keep_start, G1, G2a, G2b, G2c, nullable, unit, term_var, cnf1 >>

\* One pass of the while loop of lines 170-181
PassGenerating ==
    /\ pc = "generating"
    /\ loc.changed
    /\ loc' = GenScan(G2a, 1, loc.gen, FALSE)
    /\ UNCHANGED << pc, S, G, keep_start, G1, G2a, G2b, G2c, nullable, unit, term_var, cnf1 >>

\* Lines 182, 199-210 and 185-186: reachable_nonterminals is entered
EnterReachable ==
    /\ pc = "generating"
    /\ ~ loc.changed
    /\ pc' = "reachable"
    /\ loc' = [ gen |-> loc.gen, reach |-> { S }, changed |-> TRUE ]
    /\ UNCHANGED << S, G, keep_start, G1, G2a, G2b, G2c, nullable, unit, term_var, cnf1 >>

\* One pass of the while loop of lines 187-193
PassReachable ==
    /\ pc = "reachable"
    /\ loc.changed
    /\ LET r == ReachPass(ProdsGen(G2a, loc.gen), loc.reach)
       IN loc' = [ loc EXCEPT !.reach = r, !.changed = (r # loc.reach) ]
    /\ UNCHANGED << pc, S, G, keep_start, G1, G2a, G2b, G2c, nullable, unit, term_var, cnf1 >>

\* Lines 194 and 211-219
ReturnRemoveUseless ==
    /\ pc = "reachable"
    /\ ~ loc.changed
    /\ G2b' = ProdsFinal(S, G2a, loc.gen, loc.reach)
    /\ pc' = "p2b"
    /\ loc' = NoLocals
    /\ UNCHANGED << S, G, keep_start, G1, G2a, G2c, nullable, unit, term_var, cnf1 >>

\* to_cnf, lines 231-235.  todo lists the terminals the first pass meets
\* without a lifter, in the order it meets them.
EnterToCnf ==
    /\ pc = "p2b"
    /\ pc' = "lifting"
    /\ loc' = [ used |-> Keys(G2b), term_var |-> EmptyFun, todo |-> TermVarOrder(S, G2b),
                changed |-> FALSE ]
    /\ UNCHANGED << S, G, keep_start, G1, G2a, G2b, G2c, nullable, unit, term_var, cnf1 >>

\* Lines 244-249 for the next terminal without a lifter: its capital is
\* taken, or fresh_var is called.
LiftTerminal ==
    /\ pc = "lifting"
    /\ loc.todo # << >>
    /\ LET ch == Head(loc.todo)
           candidate == << upper(ch) >>
       IN IF candidate \in loc.used \/ ~ is_nonterminal(upper(ch))
          THEN /\ pc' = "fresh_var"
               /\ loc' = [ used |-> loc.used, term_var |-> loc.term_var, todo |-> loc.todo,
                           changed |-> FALSE, base |-> << "T", ch >>, i |-> 1,
                           caller |-> "lifting" ]
          ELSE /\ pc' = pc
               /\ loc' = [ loc EXCEPT !.used = @ \cup { candidate },
                                      !.term_var = @ @@ (ch :> candidate),
                                      !.todo = Tail(@) ]
    /\ UNCHANGED << S, G, keep_start, G1, G2a, G2b, G2c, nullable, unit, term_var, cnf1 >>

\* One turn of the while loop of lines 223-228 that finds the name in use.
FreshVarNext ==
    /\ pc = "fresh_var"
    /\ (loc.base \o str(loc.i)) \in loc.used
    /\ loc' = [ loc EXCEPT !.i = NextCounter(@) ]
    /\ UNCHANGED << pc, S, G, keep_start, G1, G2a, G2b, G2c, nullable, unit, term_var, cnf1 >>

\* The turn that finds a name not in use and returns it (lines 225-227),
\* to line 248 of the first pass or to line 273 of the second.
FreshVarReturn ==
    /\ pc = "fresh_var"
    /\ (loc.base \o str(loc.i)) \notin loc.used
    /\ pc' = loc.caller
    /\ LET cand == loc.base \o str(loc.i)
       IN IF loc.caller = "lifting"
          THEN loc' = [ used |-> loc.used \cup { cand },
                        term_var |-> loc.term_var @@ (Head(loc.todo) :> cand),
                        todo |-> Tail(loc.todo), changed |-> FALSE ]
          ELSE loc' = [ used |-> loc.used \cup { cand }, calls |-> loc.calls - 1,
                        changed |-> FALSE ]
    /\ UNCHANGED << S, G, keep_start, G1, G2a, G2b, G2c, nullable, unit, term_var, cnf1 >>

\* Lines 256-261: the first pass is over and the second begins.  calls is
\* the number of calls of fresh_var the second pass still has to make.
EnterBinarization ==
    /\ pc = "lifting"
    /\ loc.todo = << >>
    /\ pc' = "binarization"
    /\ term_var' = loc.term_var
    /\ cnf1' = TerminalLifting(S, G2b)
    /\ loc' = [ used |-> Keys(TerminalLifting(S, G2b)),
                calls |-> FreshCallsFrom(S, TerminalLifting(S, G2b), 1),
                changed |-> FALSE ]
    /\ UNCHANGED << S, G, keep_start, G1, G2a, G2b, G2c, nullable, unit >>

\* Line 272: the second pass calls fresh_var.
SplitCall ==
    /\ pc = "binarization"
    /\ loc.calls > 0
    /\ pc' = "fresh_var"
    /\ loc' = [ used |-> loc.used, calls |-> loc.calls, changed |-> FALSE,
                base |-> << "Y" >>, i |-> 1, caller |-> "binarization" ]
    /\ UNCHANGED << S, G, keep_start, G1, G2a, G2b, G2c, nullable, unit, term_var, cnf1 >>

\* Line 278
ReturnToCnf ==
    /\ pc = "binarization"
    /\ loc.calls = 0
    /\ G2c' \in to_cnf(S, G2b)
    /\ pc' = "p2c"
    /\ loc' = NoLocals
    /\ UNCHANGED << S, G, keep_start, G1, G2a, G2b, nullable, unit, term_var, cnf1 >>

\* The steps of the four stages.
Run ==
    \/ EnterFindNullable \/ PassFindNullable \/ ReturnEliminateEpsilon
    \/ EnterUnitClosure \/ PassUnitClosure \/ ReturnEliminateUnit
    \/ EnterGenerating \/ PassGenerating \/ EnterReachable \/ PassReachable
    \/ ReturnRemoveUseless
    \/ EnterToCnf \/ LiftTerminal \/ FreshVarNext \/ FreshVarReturn
    \/ EnterBinarization \/ SplitCall \/ ReturnToCnf

NextPasses ==
    \/ /\ NumProds(G) < MaxProds
       /\ \E lhs \in InNonterminals, b \in BodiesByRoom[MaxSize - Size(G)] :
              ParseLine(<< lhs >>, b)
    \/ Run

\* The program is sequential and never waits: a step that can be taken is taken.
SpecPasses == Init /\ [][NextPasses]_vars /\ WF_vars(Run)

\* ------------------------------------------------------ derivations, by search
\* A derives the empty string by a derivation tree of height at most d.
RECURSIVE DerivesEps(_, _, _)
DerivesEps(g, A, d) ==
    /\ d > 0
    /\ \E b \in Get(g, A) :
          \/ b = EpsBody
          \/ \A i \in 1..Len(b) :
                is_nonterminal(b[i]) /\ DerivesEps(g, << b[i] >>, d - 1)

\* The nonterminals A of g with A =>* ε; a smallest derivation tree repeats
\* no nonterminal on a branch, so its height is at most the number of keys.
TrueNullable(g) == { A \in Keys(g) : DerivesEps(g, A, Cardinality(Keys(g))) }

\* b without the symbols at the positions D
RECURSIVE DropFrom(_, _, _)
DropFrom(b, D, i) ==
    IF i > Len(b) THEN << >>
    ELSE (IF i \in D THEN << >> ELSE << b[i] >>) \o DropFrom(b, D, i + 1)

\* The bodies the specification gives A after ε-elimination.
ExpectedEps(A) ==
    LET N == TrueNullable(G)
        dropped == UNION { { DropFrom(b, D, 1) :
                               D \in SUBSET { i \in 1..Len(b) : << b[i] >> \in N } }
                           : b \in G.map[A] \ { EpsBody } }
    IN (dropped \ { << >> })
       \cup (IF A = S /\ keep_start /\ S \in N THEN { EpsBody } ELSE {})

\* C6: find_nullable returns exactly the nonterminals that derive the empty
\* string, as found by a bounded search for a derivation; and every member
\* owes its membership to a body that holds no terminal.
C6_NullableCorrect ==
    pc = "p1" =>
        /\ nullable = TrueNullable(G)
        /\ \A A \in nullable :
              \E b \in G.map[A] :
                  \/ b = EpsBody
                  \/ \A i \in 1..Len(b) : ~ is_terminal(b[i]) /\ << b[i] >> \in nullable

\* A nonterminal is nullable through another one, and it also has a body
\* that holds a terminal.
C6_Witness ==
    /\ pc = "p1"
    /\ \E A \in nullable :
          /\ EpsBody \notin G.map[A]
          /\ \E b \in G.map[A] : \E i \in 1..Len(b) : b[i] \in LowerChars \cup DigitChars

\* C4: the body set eliminate_epsilon returns for A is the set of non-empty
\* bodies got by deleting any subset of the nullable occurrences of each
\* non-ε body of A, plus ε exactly when A is the start symbol, retention is
\* enabled and the start symbol is nullable; no other nonterminal keeps ε.
C4_EpsilonExact ==
    pc = "p1" =>
        /\ Keys(G1) = Keys(G)
        /\ \A A \in Keys(G) : G1.map[A] = ExpectedEps(A)
        /\ \A A \in Keys(G1) \ { S } : EpsBody \notin G1.map[A]

\* A body with two nullable occurrences was expanded, and the start symbol
\* got ε because it is nullable and retention is enabled.
C4_Witness ==
    /\ pc = "p1"
    /\ keep_start
    /\ EpsBody \in G1.map[S]
    /\ \E A \in Keys(G) : \E b \in G.map[A] :
          Cardinality({ i \in 1..Len(b) : << b[i] >> \in nullable }) >= 2

\* A derives some string of terminals by a derivation tree of height at most d.
RECURSIVE Generates(_, _, _)
Generates(g, A, d) ==
    /\ d > 0
    /\ \E b \in Get(g, A) :
          \A i \in 1..Len(b) :
              is_nonterminal(b[i]) => Generates(g, << b[i] >>, d - 1)

\* Y is reached from X through at most d bodies.
RECURSIVE PathTo(_, _, _, _)
PathTo(g, X, Y, d) ==
    \/ X = Y
    \/ /\ d > 0
       /\ \E b \in Get(g, X) : \E i \in 1..Len(b) :
             is_nonterminal(b[i]) /\ PathTo(g, << b[i] >>, Y, d - 1)

\* C5: in the grammar remove_useless_symbols returns, every nonterminal with
\* an entry is reachable from the start symbol and derives a terminal string
\* with the returned productions, and every nonterminal of a body has an
\* entry; except that a start symbol that is not generating is kept with an
\* empty body set.
C5_UselessRemoved ==
    pc = "p2b" =>
        LET n == Cardinality(Keys(G2b)) IN
        /\ S \in Keys(G2b)
        /\ \A A \in Keys(G2b) :
              /\ PathTo(G2b, S, A, n)
              /\ \/ Generates(G2b, A, n)
                 \/ /\ A = S
                    /\ G2b.map[S] = {}
                    /\ ~ Generates(G2a, S, Cardinality(Keys(G2a)))
              /\ \A b \in G2b.map[A] : \A i \in 1..Len(b) :
                    is_nonterminal(b[i]) => << b[i] >> \in Keys(G2b)

\* The stage removed a nonterminal that generates nothing and one that
\* generates and cannot be reached, and the start symbol kept bodies.
C5_Witness ==
    /\ pc = "p2b"
    /\ G2b.map[S] # {}
    /\ \E A \in Keys(G2a) : ~ Generates(G2a, A, Cardinality(Keys(G2a)))
    /\ \E B \in Keys(G2a) \ Keys(G2b) : Generates(G2a, B, Cardinality(Keys(G2a)))

\* C8: with ε-retention enabled and a nullable start symbol, the start symbol
\* has the body ε after eliminate_epsilon and after every later stage.
C8_StartEpsilonSurvives ==
    (pc # "parse" /\ keep_start /\ S \in TrueNullable(G)) =>
        /\ EpsBody \in G1.map[S]
        /\ pc \in { "p2a", "p2b", "p2c" } => EpsBody \in G2a.map[S]
        /\ pc \in { "p2b", "p2c" } => S \in Keys(G2b) /\ EpsBody \in G2b.map[S]
        /\ pc = "p2c" => S \in Keys(G2c) /\ EpsBody \in G2c.map[S]

\* The whole pipeline ran on a start symbol that is nullable only through
\* other nonterminals, and the final grammar has start -> ε.
C8_Witness ==
    /\ pc = "p2c"
    /\ keep_start
    /\ EpsBody \notin G.map[S]
    /\ S \in nullable
    /\ EpsBody \in G2c.map[S]

\* Y is reached from X through at most d unit productions.
RECURSIVE UnitPath(_, _, _, _)
UnitPath(g, X, Y, d) ==
    \/ X = Y
    \/ /\ d > 0
       /\ \E b \in Get(g, X) : IsUnitBody(b) /\ UnitPath(g, b, Y, d - 1)

\* The names of g: its keys and the nonterminals of its bodies.
Names(g) ==
    Keys(g) \cup UNION { { << b[i] >> : i \in { j \in 1..Len(b) : is_nonterminal(b[j]) } }
                         : b \in UNION { g.map[A] : A \in Keys(g) } }

\* The reflexive-transitive closure of the unit relation at A.
TrueUnitClosure(g, A) ==
    { B \in Names(g) : UnitPath(g, A, B, Cardinality(Names(g))) }

\* C3: the unit closure eliminate_unit_productions computes for A is the
\* reflexive-transitive closure of the unit relation, and the body set it
\* returns for A is the union of the non-unit bodies of the closure's members.
C3_UnitClosureComplete ==
    pc = "p2a" =>
        \A A \in Keys(G1) :
            /\ unit[A] = TrueUnitClosure(G1, A)
            /\ G2a.map[A] =
                 UNION { { b \in Get(G1, B) : ~ IsUnitBody(b) } : B \in TrueUnitClosure(G1, A) }

\* A name of a nonterminal of g: one capital letter, or a key of g.
IsNonterminalName(g, t) == (Len(t) = 1 /\ is_nonterminal(t[1])) \/ t \in Keys(g)

\* b is one terminal, or two nonterminal names written one after the other.
CnfShape(g, b) ==
    \/ Len(b) = 1 /\ b # EpsBody /\ is_terminal(b[1])
    \/ \E k \in 1..(Len(b) - 1) :
          /\ IsNonterminalName(g, SubSeq(b, 1, k))
          /\ IsNonterminalName(g, SubSeq(b, k + 1, Len(b)))

\* C2: every body of the grammar to_cnf returns is one terminal, two
\* nonterminals, or ε at the start symbol.
C2_CnfShape ==
    pc = "p2c" =>
        \A A \in Keys(G2c) : \A b \in G2c.map[A] :
            (b = EpsBody /\ A = S) \/ CnfShape(G2c, b)

\* The terminals that occur in a body of length >= 2 of g.
LiftedTerminals(g) ==
    UNION { { b[i] : i \in { j \in 1..Len(b) : is_terminal(b[j]) } }
            : b \in { x \in UNION { g.map[A] : A \in Keys(g) } : Len(x) >= 2 } }

\* C9: terminal lifting gives every terminal of a body of length >= 2 one
\* lifter, its capital when that is a letter not in use and a new name
\* otherwise; lifters differ from the nonterminals of the grammar and from one
\* another; a lifter's only body is its terminal; and afterwards the symbols
\* of every body of length >= 2, which binarization splits, are nonterminals
\* that have an entry.
C9_TerminalLifting ==
    pc = "p2c" =>
        /\ DOMAIN term_var = LiftedTerminals(G2b)
        /\ \A t \in DOMAIN term_var :
              /\ term_var[t] \notin Names(G2b)
              /\ (is_nonterminal(upper(t)) /\ << upper(t) >> \notin Names(G2b))
                    => term_var[t] = << upper(t) >>
              /\ term_var[t] \in Keys(cnf1) /\ cnf1.map[term_var[t]] = { << t >> }
              /\ \A u \in DOMAIN term_var : u # t => term_var[u] # term_var[t]
        /\ \A A \in Keys(cnf1) : \A b \in cnf1.map[A] :
              Len(b) >= 2 =>
                  \A i \in 1..Len(b) : is_nonterminal(b[i]) /\ << b[i] >> \in Keys(cnf1)

\* C7: each stage applied to its own output returns that output: the same
\* entries with the same body sets.
C7_Idempotent ==
    /\ pc \in { "p1", "p2a", "p2b", "p2c" } =>
          eliminate_epsilon(S, G1, keep_start).map = G1.map
    /\ pc \in { "p2a", "p2b", "p2c" } =>
          eliminate_unit_productions(G2a).map = G2a.map
    /\ pc \in { "p2b", "p2c" } =>
          remove_useless_symbols(S, G2b).map = G2b.map
    /\ pc = "p2c" =>
          \A again \in to_cnf(S, G2c) : again.map = G2c.map

\* The terminal strings of length at most MaxWordLen.
Words ==
    LET T == { c \in InSymbols : is_terminal(c) }
        RECURSIVE W(_)
        W(n) == IF n = 0 THEN { << >> }
                ELSE W(n - 1) \cup { Append(w, c) : w \in W(n - 1), c \in T }
    IN W(MaxWordLen)

\* The words one symbol derives, given the words L each key derives: a
\* terminal derives itself, ε the empty word, a key its words.
SymbolWords(g, t, L) ==
    IF t = EpsBody THEN { << >> }
    ELSE IF Len(t) = 1 /\ is_terminal(t[1]) THEN { t }
    ELSE IF t \in Keys(g) THEN L[t]
    ELSE {}

\* The words of Words a body derives.  The body is read as a sequence of
\* symbols in every way its characters allow: a symbol is one character or a
\* key of g (a minted name has several characters).
RECURSIVE BodyWords(_, _, _)
BodyWords(g, b, L) ==
    IF b = << >> THEN { << >> }
    ELSE UNION { { u \o v : u \in SymbolWords(g, SubSeq(b, 1, k), L),
                            v \in BodyWords(g, SubSeq(b, k + 1, Len(b)), L) } \cap Words
                 : k \in { j \in 1..Len(b) : j = 1 \/ SubSeq(b, 1, j) \in Keys(g) } }

RECURSIVE WordsLoop(_, _)
WordsLoop(g, L) ==
    LET L2 == [ A \in Keys(g) |-> UNION { BodyWords(g, b, L) : b \in g.map[A] } ]
    IN IF L2 = L THEN L ELSE WordsLoop(g, L2)

\* The words of Words that start derives in g.
Language(g, start) ==
    IF start \in Keys(g) THEN WordsLoop(g, [ A \in Keys(g) |-> {} ])[start] ELSE {}

\* C1: a terminal string is derivable from the start symbol of the parsed
\* grammar iff it is derivable from the start symbol of the grammar the four
\* stages return; the empty string is derivable from the result iff it is
\* derivable from the parsed grammar and ε-retention is enabled.
C1_LanguagePreserved ==
    pc = "p2c" =>
        LET L0 == Language(G, S)
            L4 == Language(G2c, S)
        IN \A w \in Words :
              IF w = << >> THEN (w \in L4) <=> (w \in L0 /\ keep_start)
              ELSE (w \in L4) <=> (w \in L0)

\* The loops of the pipeline: pc is in one of them from the call of
\* find_nullable until to_cnf returns, except at the three points between
\* two stages.
InLoop ==
    pc \in { "find_nullable", "unit_closure", "generating", "reachable",
             "lifting", "fresh_var", "binarization" }

====
